---- MODULE Spec2Model ----
(***************************************************************************)
(* A model of auto-rest: the command line entry point that connects to a   *)
(* database, reflects its schema and serves one CRUD router per table, the *)
(* request handlers of that router, and the session each request borrows.  *)
(***************************************************************************)
EXTENDS Integers, Naturals, Sequences, FiniteSets, TLC

VARIABLES
    phase,          \* position of main() / run_application()
    db_driver,      \* the --db-driver argument
    enable_write,   \* the --enable-write argument
    engine,         \* "none", or the kind of engine create_db_engine built
    metadata,       \* the reflected catalog: a set of tables
    routes,         \* per reflected table name, the routes of its router
    logged,         \* TRUE once main() has logged a critical diagnostic
    error,          \* the step of run_application that raised, or "none"
    db,             \* committed rows of the table, in natural (storage) order
    pc,             \* per request: idle, open (session given), handled
    session,        \* per request: state of the session it was given
    pool,           \* number of sessions currently open on the engine
    resp,           \* per request: the response being produced
    call            \* a direct call of a library function: arguments, result

vars == <<phase, db_driver, enable_write, engine, metadata, routes, logged,
          error, db, pc, session, pool, resp, call>>

startup_vars == <<phase, db_driver, enable_write, engine, metadata, routes,
                  logged, error>>

request_vars == <<db, pc, session, pool, resp>>

call_vars == <<call>>

\* No library function has been called directly.
NoCall == [fn |-> "none"]

(***************************************************************************)
(* Bounds of the model.                                                    *)
(***************************************************************************)
NumKeys == 2        \* primary key values are 1..NumKeys
NumVals == 2        \* values of a NOT NULL column are 1..NumVals
NumOptVals == 1     \* values of a nullable column are NULL and 1..NumOptVals
NumReq == 2         \* request slots served concurrently
MaxHandled == 1     \* responses produced whose request is not yet over
MaxLimit == 1       \* largest _limit_ query parameter
MaxOffset == 1      \* largest _offset_ query parameter

\* Python None / SQL NULL.  It sorts before every value.
Null == 0

Keys == 1..NumKeys
Vals == 1..NumVals
OptVals == 1..NumOptVals
Requests == 1..NumReq

Range(s) == {s[i] : i \in DOMAIN s}

(***************************************************************************)
(* Tables and columns, as SQLAlchemy reflects them.                        *)
(***************************************************************************)
ColumnNames == {"age", "id", "name"}

\* The column names in the order Python compares strings.
NameOrder == <<"age", "id", "name">>

Rank(n) == CHOOSE i \in DOMAIN NameOrder : NameOrder[i] = n

Column(n, pk, nullable) ==
    [name |-> n, primary_key |-> pk, nullable |-> nullable,
     default |-> Null, server_default |-> Null, python_type |-> "int"]

\* users(id PK, name NOT NULL, age NULLABLE)
users ==
    [name |-> "users",
     columns |-> <<Column("id", TRUE, FALSE),
                   Column("name", FALSE, FALSE),
                   Column("age", FALSE, TRUE)>>]

\* The tables the database of the serving model may hold.
DbTables == {users}

\* The database of the serving model holds no view.
DbViews == {}

\* A view over users: reflected as a table without a primary key.
users_view ==
    [name |-> "users_view",
     columns |-> <<Column("name", FALSE, FALSE)>>]

InjectiveSeqs(S) ==
    {s \in UNION {[1..n -> S] : n \in 0..Cardinality(S)} :
        \A i, j \in DOMAIN s : s[i] = s[j] => i = j}

\* Every table over ColumnNames: any declaration order, any primary key.
AllTables ==
    {[name |-> "t",
      columns |-> [i \in DOMAIN ns |-> Column(ns[i], i \in pks, ~(i \in pks))]] :
        <<ns, pks>> \in {p \in InjectiveSeqs(ColumnNames) \X SUBSET (1..3) :
                            p[2] \subseteq DOMAIN p[1]}}

ColNames(table) == {table.columns[i].name : i \in DOMAIN table.columns}

ColumnOf(table, n) ==
    table.columns[CHOOSE i \in DOMAIN table.columns : table.columns[i].name = n]

\* table.primary_key.columns: the primary key columns, in declaration order.
primary_key_columns(table) ==
    SelectSeq(table.columns, LAMBDA c : c.primary_key)

\* sorted(names): ascending in Python's string order.
RECURSIVE sorted(_)
sorted(S) ==
    IF S = {} THEN <<>>
    ELSE LET m == CHOOSE n \in S : \A o \in S : Rank(n) <= Rank(o)
         IN  <<m>> \o sorted(S \ {m})

(***************************************************************************)
(* routers.create_table_router                                             *)
(***************************************************************************)
Route(path, method) == [path |-> path, method |-> method]

\* "/" is the empty sequence of path parameters; f"/{path_params_url}/" is
\* the sequence of parameter names, and "//" (one empty segment) when the
\* joined parameters are the empty string.
RootPath == <<>>

RecordPath(pk_columns) == IF pk_columns = <<>> THEN <<"">> ELSE pk_columns

\* create_table_router registering the record GET route whatever the
\* primary key.
create_table_router_unguarded(table, writeable) ==
    LET pk_columns ==
            sorted({c.name : c \in Range(primary_key_columns(table))})
        list   == <<Route(RootPath, "GET")>>
        post   == IF writeable THEN <<Route(RootPath, "POST")>> ELSE <<>>
        get    == <<Route(RecordPath(pk_columns), "GET")>>
        write  == IF pk_columns # <<>> /\ writeable
                  THEN <<Route(RecordPath(pk_columns), "PUT"),
                         Route(RecordPath(pk_columns), "PATCH"),
                         Route(RecordPath(pk_columns), "DELETE")>>
                  ELSE <<>>
    IN  list \o post \o get \o write

\* create_table_router that adds the write routes whatever writeable is.
create_table_router_writeable(table, writeable) ==
    LET pk_columns ==
            sorted({c.name : c \in Range(primary_key_columns(table))})
        list   == <<Route(RootPath, "GET")>>
        post   == <<Route(RootPath, "POST")>>
        get    == IF pk_columns # <<>>
                  THEN <<Route(RecordPath(pk_columns), "GET")>> ELSE <<>>
        write  == IF pk_columns # <<>>
                  THEN <<Route(RecordPath(pk_columns), "PUT"),
                         Route(RecordPath(pk_columns), "PATCH"),
                         Route(RecordPath(pk_columns), "DELETE")>>
                  ELSE <<>>
    IN  list \o post \o get \o write

\* create_table_router joining the primary key columns as the table holds
\* them, without sorting their names.
create_table_router_unsorted(table, writeable) ==
    LET pk_columns ==
            [i \in DOMAIN primary_key_columns(table) |->
                primary_key_columns(table)[i].name]
        list   == <<Route(RootPath, "GET")>>
        post   == IF writeable THEN <<Route(RootPath, "POST")>> ELSE <<>>
        get    == IF pk_columns # <<>>
                  THEN <<Route(RecordPath(pk_columns), "GET")>> ELSE <<>>
        write  == IF pk_columns # <<>> /\ writeable
                  THEN <<Route(RecordPath(pk_columns), "PUT"),
                         Route(RecordPath(pk_columns), "PATCH"),
                         Route(RecordPath(pk_columns), "DELETE")>>
                  ELSE <<>>
    IN  list \o post \o get \o write

create_table_router(table, writeable) ==
    LET pk_columns ==
            sorted({c.name : c \in Range(primary_key_columns(table))})
        list   == <<Route(RootPath, "GET")>>
        post   == IF writeable THEN <<Route(RootPath, "POST")>> ELSE <<>>
        get    == IF pk_columns # <<>>
                  THEN <<Route(RecordPath(pk_columns), "GET")>> ELSE <<>>
        write  == IF pk_columns # <<>> /\ writeable
                  THEN <<Route(RecordPath(pk_columns), "PUT"),
                         Route(RecordPath(pk_columns), "PATCH"),
                         Route(RecordPath(pk_columns), "DELETE")>>
                  ELSE <<>>
    IN  list \o post \o get \o write

\* app.create_route_handlers, the route factory of create_app: the record
\* path joins the primary key columns as the table holds them, every route
\* is registered whatever the write setting, and a table without a primary
\* key is refused.
create_route_handlers(table) ==
    LET pk_columns  == primary_key_columns(table)
        path_params == [i \in DOMAIN pk_columns |-> pk_columns[i].name]
    IN  IF pk_columns = <<>>
        THEN [raised |-> TRUE, routes |-> <<>>]
        ELSE [raised |-> FALSE,
              routes |-> <<Route(RootPath, "GET"),
                           Route(RootPath, "POST"),
                           Route(RecordPath(path_params), "GET"),
                           Route(RecordPath(path_params), "PUT"),
                           Route(RecordPath(path_params), "PATCH"),
                           Route(RecordPath(path_params), "DELETE")>>]

(***************************************************************************)
(* models.create_db_engine / create_db_metadata, __main__                  *)
(***************************************************************************)
Drivers == {"postgresql+psycopg2", "sqlite+aiosqlite"}

\* url.get_dialect().is_async
is_async(driver) == driver = "sqlite+aiosqlite"

create_db_engine(driver) == IF is_async(driver) THEN "async" ELSE "sync"

\* run_application line 81: the engine is built (lazily: no connection yet).
CreateDbEngine ==
    /\ phase = "start"
    /\ engine' = create_db_engine(db_driver)
    /\ phase' = "engine"
    /\ UNCHANGED <<db_driver, enable_write, metadata, routes, logged, error>>
    /\ UNCHANGED <<request_vars, call_vars>>

\* MetaData.reflect(bind, views): the tables of the database, and its views
\* when views is set.
reflect(tables, views_of_db, views) ==
    IF views THEN tables \cup views_of_db ELSE tables

\* create_db_metadata: connect and reflect. For an AsyncEngine asyncio.run
\* runs connection.run_sync(metadata.reflect) to completion, with reflect's
\* default views=False; otherwise metadata.reflect(bind=engine, views=True)
\* runs inline.
create_db_metadata(eng, tables, views_of_db) ==
    IF eng = "async" THEN reflect(tables, views_of_db, FALSE)
    ELSE reflect(tables, views_of_db, TRUE)

CreateDbMetadata ==
    /\ phase = "engine"
    /\ metadata' = create_db_metadata(engine, DbTables, DbViews)
    /\ phase' = "reflected"
    /\ UNCHANGED <<db_driver, enable_write, engine, routes, logged, error>>
    /\ UNCHANGED <<request_vars, call_vars>>

\* An exception swallowed where it is raised: run_application goes on with
\* what it has.
main_except_swallowed(step) ==
    /\ error' = step
    /\ logged' = TRUE
    /\ phase' = "reflected"

\* main(): an exception of run_application is caught and logged as critical;
\* main() then returns and the process ends.
main_except(step) ==
    /\ error' = step
    /\ logged' = TRUE
    /\ phase' = "aborted"

\* The database cannot be reached, or its schema cannot be reflected:
\* create_db_metadata raises and nothing after it in run_application runs.
CreateDbMetadataFails ==
    /\ phase = "engine"
    /\ \E step \in {"connect", "reflect"} : main_except(step)
    /\ UNCHANGED <<db_driver, enable_write, engine, metadata, routes>>
    /\ UNCHANGED <<request_vars, call_vars>>

TableNamed(tables, n) == CHOOSE t \in tables : t.name = n

\* run_application lines 97-99: one router per reflected table.
IncludeRouters ==
    /\ phase = "reflected"
    /\ routes' = [n \in {t.name : t \in metadata} |->
                    create_table_router(TableNamed(metadata, n), enable_write)]
    /\ phase' = "built"
    /\ UNCHANGED <<db_driver, enable_write, engine, metadata, logged, error>>
    /\ UNCHANGED <<request_vars, call_vars>>

\* run_application line 103: uvicorn.run starts serving the application.
UvicornRun ==
    /\ phase = "built"
    /\ phase' = "serving"
    /\ UNCHANGED <<db_driver, enable_write, engine, metadata, routes, logged,
                   error>>
    /\ UNCHANGED <<request_vars, call_vars>>

(***************************************************************************)
(* Rows, request bodies and the interface the handlers validate against.   *)
(***************************************************************************)
ValidValue(col, v) ==
    IF col.primary_key THEN v \in Keys
    ELSE IF col.nullable THEN v \in OptVals \cup {Null}
    ELSE v \in Vals

\* The rows a table can hold.
Rows(table) ==
    {row \in [ColNames(table) -> Keys \cup Vals \cup OptVals \cup {Null}] :
        \A n \in ColNames(table) : ValidValue(ColumnOf(table, n), row[n])}

PkNames(table) == {c.name : c \in Range(primary_key_columns(table))}

SamePk(table, a, b) == \A n \in PkNames(table) : a[n] = b[n]

\* The contents a table can have: its primary key identifies a row.
DbStates(table) ==
    {s \in UNION {[1..n -> Rows(table)] : n \in 0..NumKeys} :
        \A i, j \in DOMAIN s : SamePk(table, s[i], s[j]) => i = j}

\* The JSON objects a client may send: any subset of the columns, each with
\* a value of the column's Python type.
Bodies(table) ==
    {b \in UNION {[S -> Keys \cup Vals \cup OptVals] :
                     S \in SUBSET ColNames(table)} :
        \A n \in DOMAIN b :
            /\ b[n] # Null
            /\ ValidValue(ColumnOf(table, n), b[n])}

NoBody == [n \in {} |-> Null]

\* request.path_params: one value per primary key column.
PathParams(table) == [PkNames(table) -> Keys]

NoPathParams == [n \in {} |-> Null]

\* models.create_db_interface: one field per column, of the column's Python
\* type, required (...) unless the column has a client-side default.
create_db_interface(table) ==
    [n \in ColNames(table) |->
        [required |-> ColumnOf(table, n).default = Null,
         default  |-> ColumnOf(table, n).default]]

\* Pydantic validation of a body against an interface: every required field
\* is present and no field is null (the field types are not Optional).
validates(interface, body) ==
    /\ \A n \in DOMAIN interface : interface[n].required => n \in DOMAIN body
    /\ \A n \in DOMAIN body \cap DOMAIN interface : body[n] # Null

\* data.dict(): every field, the unset ones at their default.
dict(interface, body) ==
    [n \in DOMAIN interface |->
        IF n \in DOMAIN body THEN body[n] ELSE interface[n].default]

\* data.dict(exclude_unset=True): only the fields the body carried.
dict_exclude_unset(interface, body) ==
    [n \in DOMAIN body \cap DOMAIN interface |-> body[n]]

(***************************************************************************)
(* params.get_*_params / apply_*_params and the select they build.         *)
(***************************************************************************)
\* str(n) of an integer, as written to a response header.
str(n) == ToString(n)

\* str(value) of value or None, the value given as <<n>> and None as <<>>.
str_or_None(value) == IF value = <<>> THEN "None" ELSE str(value[1])

\* The one-character string U+03BB (Greek small letter lambda), written in
\* ASCII: a string that latin-1 cannot encode.
Lambda == "u03bb"

\* Whether value.encode("latin-1") succeeds.
latin_1(value) == value # Lambda

NoHeaders == [h \in {} |-> ""]

\* response.headers[key] = value, the value given as <<string>>, or <<>>
\* for None.  The value is encoded to latin-1 bytes, which raises for None
\* (the order_by of a request that names no _order_by_) and for a string
\* with a character outside latin-1.
SetHeader(response, key, value) ==
    IF response.raised # "none" THEN response
    ELSE IF value = <<>> THEN [response EXCEPT !.raised = "headers"]
    ELSE IF ~latin_1(value[1]) THEN [response EXCEPT !.raised = "headers"]
    ELSE [response EXCEPT !.headers =
            [h \in DOMAIN response.headers \cup {key} |->
                IF h = key THEN value[1] ELSE response.headers[h]]]

NewResponse == [headers |-> NoHeaders, raised |-> "none"]

\* select(model).  A clause not attached is <<>>, an attached LIMIT or
\* OFFSET is <<n>>.
select == [where |-> NoPathParams, order_by |-> <<>>, limit |-> <<>>,
           offset |-> <<>>]

filter_by(query, path_params) == [query EXCEPT !.where = path_params]

\* The parsed query parameters of a list request.  order_by is <<>> when
\* the request names none, else <<column name>>.
OrderByNames == {"name", "zzz"}

ListParams ==
    [limit : 0..MaxLimit, offset : 0..MaxOffset,
     order_by : {<<>>} \cup {<<n>> : n \in OrderByNames},
     direction : {"asc", "desc"}]

NoParams == [limit |-> 0, offset |-> 0, order_by |-> <<>>, direction |-> "asc"]

\* d.get(key): <<value>>, or <<>> (None) when d has no such key.
get(d, key) == IF key \in DOMAIN d THEN <<d[key]>> ELSE <<>>

\* value or 0
or_0(value) == IF value = <<>> THEN 0 ELSE value[1]

\* apply_pagination_params that attaches the limit it is given, zero and
\* None included.
apply_pagination_params_always(query, params, response) ==
    LET limit  == get(params, "limit")
        offset == get(params, "offset")
        r1 == SetHeader(response, "X-Pagination-Limit", <<str_or_None(limit)>>)
        r2 == SetHeader(r1, "X-Pagination-Offset",
                        <<str_or_None(offset)>>)
    IN  <<[query EXCEPT !.offset = <<or_0(offset)>>, !.limit = <<or_0(limit)>>],
          SetHeader(r2, "X-Pagination-Applied", <<"true">>)>>

\* params.apply_pagination_params; returns <<query, response>>.  The
\* header values are str(<<n>>), or str(<<>>) for str(None).
apply_pagination_params(query, params, response) ==
    LET limit  == get(params, "limit")
        offset == get(params, "offset")
        r1 == SetHeader(response, "X-Pagination-Limit", <<str_or_None(limit)>>)
        r2 == SetHeader(r1, "X-Pagination-Offset",
                        <<str_or_None(offset)>>)
    IN  IF limit \in {<<0>>, <<>>}
        THEN <<query, SetHeader(r2, "X-Pagination-Applied", <<"false">>)>>
        ELSE <<[query EXCEPT !.offset = <<or_0(offset)>>, !.limit = limit],
               SetHeader(r2, "X-Pagination-Applied", <<"true">>)>>

\* query.columns.keys()
columns_keys(table) == ColNames(table)

\* apply_ordering_params that orders ascending whatever the direction.
apply_ordering_params_asc(table, query, params, response) ==
    LET r1 == SetHeader(response, "X-Order-By", params.order_by)
        r2 == SetHeader(r1, "X-Order-Direction", <<params.direction>>)
        r3 == SetHeader(r2, "X-Order-Applied", <<"true">>)
    IN  IF params.order_by = <<>> \/ ~(params.order_by[1] \in columns_keys(table))
        THEN <<query, SetHeader(r3, "X-Order-Applied", <<"false">>)>>
        ELSE <<[query EXCEPT !.order_by = <<[col |-> params.order_by[1],
                                              dir |-> "asc"]>>], r3>>

\* params.apply_ordering_params; returns <<query, response>>.
apply_ordering_params(table, query, params, response) ==
    LET r1 == SetHeader(response, "X-Order-By", params.order_by)
        r2 == SetHeader(r1, "X-Order-Direction", <<params.direction>>)
        r3 == SetHeader(r2, "X-Order-Applied", <<"true">>)
    IN  IF params.order_by = <<>> \/ ~(params.order_by[1] \in columns_keys(table))
        THEN <<query, SetHeader(r3, "X-Order-Applied", <<"false">>)>>
        ELSE IF params.direction = "desc"
        THEN <<[query EXCEPT !.order_by = <<[col |-> params.order_by[1],
                                              dir |-> "desc"]>>], r3>>
        ELSE <<[query EXCEPT !.order_by = <<[col |-> params.order_by[1],
                                              dir |-> "asc"]>>], r3>>

(***************************************************************************)
(* The database behind a session: what executing a statement gives.        *)
(***************************************************************************)
Matches(row, where) == \A n \in DOMAIN where : row[n] = where[n]

Bijections(n) ==
    {f \in [1..n -> 1..n] : \A i, j \in 1..n : f[i] = f[j] => i = j}

PermsOf(s) == {[i \in DOMAIN s |-> s[f[i]]] : f \in Bijections(Len(s))}

IsSortedBy(s, col, dir) ==
    \A i \in 1..(Len(s) - 1) :
        IF dir = "desc" THEN s[i][col] >= s[i + 1][col]
        ELSE s[i][col] <= s[i + 1][col]

\* ORDER BY col dir: any arrangement of the rows that is sorted on col
\* (SQL leaves the order of rows with equal keys open).
OrderBy(rows, col, dir) == {p \in PermsOf(rows) : IsSortedBy(p, col, dir)}

Min(a, b) == IF a <= b THEN a ELSE b

\* OFFSET offset LIMIT limit
Slice(rows, offset, limit) ==
    SubSeq(rows, offset + 1, Min(Len(rows), offset + limit))

\* The results a SELECT may give over the committed rows: WHERE, then
\* ORDER BY, then OFFSET/LIMIT, whatever the order the clauses were attached
\* to the query in.
ExecuteSelect(query, rows) ==
    LET filtered == SelectSeq(rows, LAMBDA row : Matches(row, query.where))
        ordered  == IF query.order_by = <<>> THEN {filtered}
                    ELSE OrderBy(filtered, query.order_by[1].col,
                                 query.order_by[1].dir)
    IN  {IF query.limit = <<>>
         THEN SubSeq(p, or_0(query.offset) + 1, Len(p))
         ELSE Slice(p, or_0(query.offset), query.limit[1]) :
            p \in ordered}

\* Whether the table can hold these rows (NOT NULL and PRIMARY KEY hold).
Consistent(table, rows) ==
    /\ \A i \in DOMAIN rows : rows[i] \in Rows(table)
    /\ \A i, j \in DOMAIN rows : SamePk(table, rows[i], rows[j]) => i = j

(***************************************************************************)
(* The session: what its operations do to the table.  fault names the      *)
(* database operation that fails during the request, if any; error tells   *)
(* that the operation raised.                                              *)
(***************************************************************************)
SessionExecute(query, rows, fault) ==
    [error |-> fault = "execute", results |-> ExecuteSelect(query, rows)]

\* INSERT: the row is pending; a row the table cannot hold is refused.
SessionInsert(table, rows, values, fault) ==
    [error |-> fault = "execute" \/ ~Consistent(table, Append(rows, values)),
     pending |-> Append(rows, values)]

\* session.delete(record): the record is pending deletion.
SessionDelete(rows, record, fault) ==
    [error |-> fault = "delete",
     pending |-> SelectSeq(rows, LAMBDA row : row \notin Range(record))]

\* session.commit(): the pending rows become the table, unless the commit
\* fails (a database error, or rows the table cannot hold); the session is
\* then closed without them.
SessionCommit(table, rows, pending, fault) ==
    LET failed == fault = "commit" \/ ~Consistent(table, pending)
    IN  [error |-> failed, db |-> IF failed THEN rows ELSE pending]

(***************************************************************************)
(* queries: the session adapter and get_record_or_404.  raised tells that  *)
(* the call raised to the handler.                                         *)
(***************************************************************************)
\* execute_session_query that does not await the execute of an
\* AsyncSession: the handler gets a coroutine, not a result, and fails on
\* it; the statement is never run.
execute_session_query_unawaited(sess, query, rows, fault) ==
    IF sess = "async"
    THEN [raised |-> TRUE, error |-> FALSE, results |-> {<<>>}]
    ELSE [raised  |-> SessionExecute(query, rows, fault).error,
          error   |-> SessionExecute(query, rows, fault).error,
          results |-> SessionExecute(query, rows, fault).results]

\* execute_session_query: awaited on an AsyncSession, inline otherwise.
execute_session_query(sess, query, rows, fault) ==
    IF sess = "async"
    THEN [raised  |-> SessionExecute(query, rows, fault).error,
          error   |-> SessionExecute(query, rows, fault).error,
          results |-> SessionExecute(query, rows, fault).results]
    ELSE [raised  |-> SessionExecute(query, rows, fault).error,
          error   |-> SessionExecute(query, rows, fault).error,
          results |-> SessionExecute(query, rows, fault).results]

\* commit_session that swallows the failure of the commit.
commit_session_swallowed(sess, table, rows, pending, fault) ==
    [raised |-> FALSE,
     error  |-> SessionCommit(table, rows, pending, fault).error,
     db     |-> SessionCommit(table, rows, pending, fault).db]

\* commit_session
commit_session(sess, table, rows, pending, fault) ==
    IF sess = "async"
    THEN [raised |-> SessionCommit(table, rows, pending, fault).error,
          error  |-> SessionCommit(table, rows, pending, fault).error,
          db     |-> SessionCommit(table, rows, pending, fault).db]
    ELSE [raised |-> SessionCommit(table, rows, pending, fault).error,
          error  |-> SessionCommit(table, rows, pending, fault).error,
          db     |-> SessionCommit(table, rows, pending, fault).db]

\* delete_session_record that never reaches session.delete.
delete_session_record_skipped(sess, rows, record, fault) ==
    [raised |-> FALSE, error |-> FALSE, pending |-> rows]

\* delete_session_record
delete_session_record(sess, rows, record, fault) ==
    IF sess = "async"
    THEN [raised  |-> SessionDelete(rows, record, fault).error,
          error   |-> SessionDelete(rows, record, fault).error,
          pending |-> SessionDelete(rows, record, fault).pending]
    ELSE [raised  |-> SessionDelete(rows, record, fault).error,
          error   |-> SessionDelete(rows, record, fault).error,
          pending |-> SessionDelete(rows, record, fault).pending]

\* result.scalar_one_or_none(): <<>> for None, else <<record>>.  (The
\* selects it is used on filter on the whole primary key: at most one row.)
scalar_one_or_none(result) ==
    LET rows == CHOOSE res \in result.results : TRUE
    IN  IF Len(rows) = 0 THEN <<>> ELSE <<rows[1]>>

\* get_record_or_404 returning what it found, a record or None, without
\* raising.
get_record_or_none(result) ==
    [status |-> 200, record |-> scalar_one_or_none(result)]

\* get_record_or_404: raises HTTPException(404, "Record not found") when
\* the result holds no record.
get_record_or_404(result) ==
    LET record == scalar_one_or_none(result)
    IN  IF record = <<>>
        THEN [status |-> 404, record |-> <<>>]
        ELSE [status |-> 200, record |-> record]

(***************************************************************************)
(* handlers: what each request handler answers and leaves in the table.    *)
(* An outcome holds the HTTP status, the body (out: the records returned), *)
(* the exception that ended the handler (raised), the database operation   *)
(* that failed in its session (error), whether a commit went through,      *)
(* whether a delete was issued, and the rows of the table afterwards.      *)
(***************************************************************************)
Outcome(status, detail, out, headers, raised, err, committed, deleted, rows) ==
    [status |-> status, detail |-> detail, out |-> out, headers |-> headers,
     raised |-> raised, error |-> err, committed |-> committed,
     deleted |-> deleted, db |-> rows]

\* An exception other than HTTPException leaves the handler: the server
\* answers 500 and the session is closed without a commit.
ServerError(what, err, deleted, rows) ==
    Outcome(500, "Internal Server Error", <<>>, NoHeaders, what, err, FALSE,
            deleted, rows)

NotFound(rows) ==
    Outcome(404, "Record not found", <<>>, NoHeaders, "HTTPException", "none",
            FALSE, FALSE, rows)

\* The body fails the interface: the handler is not called.
ValidationError(rows) ==
    Outcome(422, "Unprocessable Entity", <<>>, NoHeaders, "none", "none",
            FALSE, FALSE, rows)

\* The first database operation of a finished handler that failed.
ErrorOf(executed, deleted, committed) ==
    IF executed.error THEN "execute"
    ELSE IF deleted.error THEN "delete"
    ELSE IF committed.error THEN "commit"
    ELSE "none"

NotCalled == [error |-> FALSE]

\* list_records; the set of answers the database may give.
list_records(table, sess, rows, params, fault) ==
    LET paged   == apply_pagination_params(select, params, NewResponse)
        ordered == apply_ordering_params(table, paged[1], params, paged[2])
        result  == execute_session_query(sess, ordered[1], rows, fault)
    IN  IF ordered[2].raised # "none"
        THEN {ServerError(ordered[2].raised, "none", FALSE, rows)}
        ELSE IF result.raised
        THEN {ServerError("execute", "execute", FALSE, rows)}
        ELSE {Outcome(200, "", res, ordered[2].headers, "none",
                      ErrorOf(result, NotCalled, NotCalled), FALSE, FALSE,
                      rows) : res \in result.results}

\* get_record
get_record(table, sess, rows, path_params, fault) ==
    LET result == execute_session_query(sess, filter_by(select, path_params),
                                        rows, fault)
        found  == get_record_or_404(result)
    IN  IF result.raised THEN ServerError("execute", "execute", FALSE, rows)
        ELSE IF found.status = 404 THEN NotFound(rows)
        ELSE Outcome(200, "", found.record, NoHeaders, "none",
                     ErrorOf(result, NotCalled, NotCalled), FALSE, FALSE,
                     rows)

\* result.fetchone() on the result of an INSERT without RETURNING: the
\* result holds no rows and is closed, so fetching from it raises.
fetchone(inserted) == [raised |-> TRUE, row |-> <<>>]

\* post_record
post_record(table, sess, rows, body, fault) ==
    LET interface == create_db_interface(table)
        values    == dict(interface, body)
        inserted  == SessionInsert(table, rows, values, fault)
        committed == commit_session(sess, table, rows, inserted.pending,
                                    fault)
        fetched   == fetchone(inserted)
    IN  IF inserted.error THEN ServerError("execute", "execute", FALSE, rows)
        ELSE IF committed.raised
        THEN ServerError("commit", "commit", FALSE, committed.db)
        ELSE IF fetched.raised
        THEN Outcome(500, "Internal Server Error", <<>>, NoHeaders,
                     "fetchone", ErrorOf(inserted, NotCalled, committed),
                     ~committed.error, FALSE, committed.db)
        ELSE Outcome(201, "", fetched.row, NoHeaders, "none",
                     ErrorOf(inserted, NotCalled, committed),
                     ~committed.error, FALSE, committed.db)

\* for key, value in values.items(): setattr(record, key, value)
setattrs(record, values) ==
    [i \in DOMAIN record |->
        [n \in DOMAIN record[i] |->
            IF n \in DOMAIN values THEN values[n] ELSE record[i][n]]]

\* The rows with the fetched record replaced by its changed state.
Replace(rows, record, changed) ==
    [i \in DOMAIN rows |->
        IF record # <<>> /\ rows[i] = record[1] THEN changed[1] ELSE rows[i]]

\* put_record
put_record(table, sess, rows, path_params, body, fault) ==
    LET interface == create_db_interface(table)
        result    == execute_session_query(sess,
                        filter_by(select, path_params), rows, fault)
        found     == get_record_or_404(result)
        record    == setattrs(found.record, dict(interface, body))
        committed == commit_session(sess, table, rows,
                        Replace(rows, found.record, record), fault)
    IN  IF result.raised THEN ServerError("execute", "execute", FALSE, rows)
        ELSE IF found.status = 404 THEN NotFound(rows)
        ELSE IF committed.raised
        THEN ServerError("commit", "commit", FALSE, committed.db)
        ELSE Outcome(200, "", record, NoHeaders, "none",
                     ErrorOf(result, NotCalled, committed), ~committed.error,
                     FALSE, committed.db)

\* patch_record
patch_record(table, sess, rows, path_params, body, fault) ==
    LET interface == create_db_interface(table)
        result    == execute_session_query(sess,
                        filter_by(select, path_params), rows, fault)
        found     == get_record_or_404(result)
        record    == setattrs(found.record,
                              dict_exclude_unset(interface, body))
        committed == commit_session(sess, table, rows,
                        Replace(rows, found.record, record), fault)
    IN  IF result.raised THEN ServerError("execute", "execute", FALSE, rows)
        ELSE IF found.status = 404 THEN NotFound(rows)
        ELSE IF committed.raised
        THEN ServerError("commit", "commit", FALSE, committed.db)
        ELSE Outcome(200, "", record, NoHeaders, "none",
                     ErrorOf(result, NotCalled, committed), ~committed.error,
                     FALSE, committed.db)

\* delete_record
delete_record(table, sess, rows, path_params, fault) ==
    LET result    == execute_session_query(sess,
                        filter_by(select, path_params), rows, fault)
        found     == get_record_or_404(result)
        deleted   == delete_session_record(sess, rows, found.record, fault)
        committed == commit_session(sess, table, rows, deleted.pending, fault)
    IN  IF result.raised THEN ServerError("execute", "execute", FALSE, rows)
        ELSE IF found.status = 404 THEN NotFound(rows)
        ELSE IF deleted.raised
        THEN ServerError("delete", "delete", FALSE, rows)
        ELSE IF committed.raised
        THEN ServerError("commit", "commit", TRUE, committed.db)
        ELSE Outcome(200, "", <<>>, NoHeaders, "none",
                     ErrorOf(result, deleted, committed), ~committed.error,
                     TRUE, committed.db)

\* The identity of a session object: NoId before any was made, else the
\* first identity that no session still open has.
NoId == 0

new_id(live) ==
    CHOOSE i \in 1..(Cardinality(live) + 1) :
        /\ i \notin live
        /\ \A j \in 1..(i - 1) : j \in live

(***************************************************************************)
(* models.create_session_iterator: the session dependency of a request.    *)
(***************************************************************************)
NoSession == [kind |-> "none", state |-> "none", exc |-> "none", id |-> NoId]

\* session_enter that hands out one session object to every request.
session_enter_shared(eng, live) ==
    IF eng = "async"
    THEN [kind |-> "async", state |-> "open", exc |-> "none", id |-> 1]
    ELSE [kind |-> "sync", state |-> "open", exc |-> "none", id |-> 1]

\* Entering the with block: a Session, or an AsyncSession for an AsyncEngine.
session_enter(eng, live) ==
    IF eng = "async"
    THEN [kind |-> "async", state |-> "open", exc |-> "none",
          id |-> new_id(live)]
    ELSE [kind |-> "sync", state |-> "open", exc |-> "none",
          id |-> new_id(live)]

\* The exceptions a failed database operation raises.
DBAPIErrors == {"execute", "commit", "delete"}

\* The class of the exception a handler ended with.
ExcClass(raised) ==
    IF raised = "none" THEN "none"
    ELSE IF raised \in DBAPIErrors THEN "DBAPIError"
    ELSE "Exception"

\* A with block that does not close the session when left by an exception.
session_exit_on_return(sess, raised) ==
    [sess EXCEPT !.state = IF raised = "none" THEN "closed" ELSE "open",
                 !.exc = ExcClass(raised)]

\* Leaving the with block, by return or by the exception the handler ended
\* with (thrown into the generator): the session is closed either way, and
\* the generator that held the session object is over.
session_exit(sess, raised) ==
    [sess EXCEPT !.state = "closed", !.exc = ExcClass(raised), !.id = NoId]

NoResp ==
    [method |-> "none", path_params |-> NoPathParams, body |-> NoBody,
     params |-> NoParams, status |-> 0, detail |-> "", out |-> <<>>,
     headers |-> NoHeaders, raised |-> "none", error |-> "none",
     committed |-> FALSE, deleted |-> FALSE]

Response(method, path_params, body, params, o) ==
    [method |-> method, path_params |-> path_params, body |-> body,
     params |-> params, status |-> o.status, detail |-> o.detail,
     out |-> o.out, headers |-> o.headers, raised |-> o.raised,
     error |-> o.error, committed |-> o.committed, deleted |-> o.deleted]

\* The router of the table has a route with this method on the collection
\* path ("/") or on the record path.
Routed(table, method, on_record) ==
    \E i \in DOMAIN routes[table.name] :
        /\ routes[table.name][i].method = method
        /\ (routes[table.name][i].path # RootPath) = on_record

\* The identities of the sessions that are open.
LiveSessions == {session[q].id : q \in {q \in Requests : session[q].state = "open"}}

\* A request arrives on a table route: its session dependency is entered.
Acquire(r) ==
    /\ phase = "serving"
    /\ pc[r] = "idle"
    /\ session' = [session EXCEPT
                     ![r] = session_enter(engine, LiveSessions)]
    /\ pool' = pool + 1
    /\ pc' = [pc EXCEPT ![r] = "open"]
    /\ UNCHANGED <<db, resp>>
    /\ UNCHANGED <<startup_vars, call_vars>>

\* Request r holds its session and its handler may run now.
Handling(r) ==
    /\ pc[r] = "open"
    /\ Cardinality({q \in Requests : pc[q] = "handled"}) < MaxHandled

\* A route whose handler takes the body as an instance of the interface:
\* the body is validated first and the handler is called with a valid one.
Endpoint(table, body, rows, o) ==
    IF validates(create_db_interface(table), body) THEN o
    ELSE ValidationError(rows)

\* The handler of request r has answered o.
Answer(r, method, path_params, body, params, o) ==
    /\ resp' = [resp EXCEPT
                  ![r] = Response(method, path_params, body, params, o)]
    /\ db' = o.db
    /\ pc' = [pc EXCEPT ![r] = "handled"]
    /\ UNCHANGED <<session, pool>>
    /\ UNCHANGED <<startup_vars, call_vars>>

ListRecords(r) ==
    /\ Handling(r)
    /\ \E table \in metadata, params \in ListParams,
          fault \in {"none", "execute"} :
        /\ Routed(table, "GET", FALSE)
        /\ \E o \in list_records(table, session[r].kind, db, params, fault) :
              Answer(r, "LIST", NoPathParams, NoBody, params, o)

GetRecord(r) ==
    /\ Handling(r)
    /\ \E table \in metadata, path_params \in PathParams(users),
          fault \in {"none", "execute"} :
        /\ Routed(table, "GET", TRUE)
        /\ Answer(r, "GET", path_params, NoBody, NoParams,
                  get_record(table, session[r].kind, db, path_params, fault))

PostRecord(r) ==
    /\ Handling(r)
    /\ \E table \in metadata, body \in Bodies(users),
          fault \in {"none", "execute", "commit"} :
        /\ Routed(table, "POST", FALSE)
        /\ Answer(r, "POST", NoPathParams, body, NoParams,
                  Endpoint(table, body, db,
                      post_record(table, session[r].kind, db, body, fault)))

PutRecord(r) ==
    /\ Handling(r)
    /\ \E table \in metadata, path_params \in PathParams(users),
          body \in Bodies(users), fault \in {"none", "execute", "commit"} :
        /\ Routed(table, "PUT", TRUE)
        /\ Answer(r, "PUT", path_params, body, NoParams,
                  Endpoint(table, body, db,
                      put_record(table, session[r].kind, db, path_params,
                                 body, fault)))

PatchRecord(r) ==
    /\ Handling(r)
    /\ \E table \in metadata, path_params \in PathParams(users),
          body \in Bodies(users), fault \in {"none", "execute", "commit"} :
        /\ Routed(table, "PATCH", TRUE)
        /\ Answer(r, "PATCH", path_params, body, NoParams,
                  Endpoint(table, body, db,
                      patch_record(table, session[r].kind, db, path_params,
                                   body, fault)))

DeleteRecord(r) ==
    /\ Handling(r)
    /\ \E table \in metadata, path_params \in PathParams(users),
          fault \in {"none", "execute", "delete", "commit"} :
        /\ Routed(table, "DELETE", TRUE)
        /\ Answer(r, "DELETE", path_params, NoBody, NoParams,
                  delete_record(table, session[r].kind, db, path_params,
                                fault))

\* The request leaves its session dependency (the with block is exited),
\* its response is sent and the request is over.
Release(r) ==
    /\ pc[r] = "handled"
    /\ session' = [session EXCEPT
                     ![r] = session_exit(session[r], resp[r].raised)]
    /\ pool' = IF session_exit(session[r], resp[r].raised).state = "closed"
               THEN pool - 1 ELSE pool
    /\ resp' = [resp EXCEPT ![r] = NoResp]
    /\ pc' = [pc EXCEPT ![r] = "idle"]
    /\ UNCHANGED db
    /\ UNCHANGED <<startup_vars, call_vars>>

(***************************************************************************)
(* The application: started from the command line, then serving.           *)
(***************************************************************************)
Init ==
    /\ phase = "start"
    /\ db_driver \in Drivers
    /\ enable_write \in BOOLEAN
    /\ engine = "none"
    /\ metadata = {}
    /\ routes = [n \in {} |-> <<>>]
    /\ logged = FALSE
    /\ error = "none"
    /\ db \in DbStates(users)
    /\ pc = [r \in Requests |-> "idle"]
    /\ session = [r \in Requests |-> NoSession]
    /\ pool = 0
    /\ resp = [r \in Requests |-> NoResp]
    /\ call = NoCall

Next ==
    \/ CreateDbEngine
    \/ CreateDbMetadata
    \/ CreateDbMetadataFails
    \/ IncludeRouters
    \/ UvicornRun
    \/ \E r \in Requests :
        \/ Acquire(r)
        \/ ListRecords(r)
        \/ GetRecord(r)
        \/ PostRecord(r)
        \/ PutRecord(r)
        \/ PatchRecord(r)
        \/ DeleteRecord(r)
        \/ Release(r)

Spec == Init /\ [][Next]_vars

\* The server leaves the session dependency of every request whose handler
\* has ended.
FairSpec == Spec /\ \A r \in Requests : WF_vars(Release(r))

(***************************************************************************)
(* Route construction alone: one reflected table of any shape.             *)
(***************************************************************************)
InitRouter ==
    /\ phase = "reflected"
    /\ db_driver \in Drivers
    /\ enable_write \in BOOLEAN
    /\ engine = create_db_engine(db_driver)
    /\ metadata \in {{table} : table \in AllTables}
    /\ routes = [n \in {} |-> <<>>]
    /\ logged = FALSE
    /\ error = "none"
    /\ db = <<>>
    /\ pc = [r \in Requests |-> "idle"]
    /\ session = [r \in Requests |-> NoSession]
    /\ pool = 0
    /\ resp = [r \in Requests |-> NoResp]
    /\ call = NoCall

NextRouter == IncludeRouters

SpecRouter == InitRouter /\ [][NextRouter]_vars

(***************************************************************************)
(* Properties                                                              *)
(***************************************************************************)
\* The (on the record path, method) pairs of the routes of a router.
RouteKinds(router) ==
    {<<router[i].path # RootPath, router[i].method>> : i \in DOMAIN router}

\* path addresses a record of the table: one parameter per primary-key
\* column, each column once.
IsRecordPath(path, table) ==
    /\ Len(path) = Cardinality(PkNames(table))
    /\ Range(path) = PkNames(table)

\* C1: the router built for a table holds exactly: with a primary key and
\* writes enabled, the collection GET and POST and the record GET, PUT,
\* PATCH and DELETE; with a primary key and writes disabled, the collection
\* GET and the record GET; without a primary key and writes enabled, the
\* collection GET and POST; without a primary key and writes disabled, the
\* collection GET alone.  Every record route is on the path of the
\* primary-key columns, and no route is registered twice.
C1_RouteSet ==
    phase \in {"built", "serving"} =>
        \A table \in metadata :
            LET router == routes[table.name]
                has_pk == PkNames(table) # {}
            IN  /\ RouteKinds(router) =
                     IF has_pk /\ enable_write
                     THEN {<<FALSE, "GET">>, <<FALSE, "POST">>,
                           <<TRUE, "GET">>, <<TRUE, "PUT">>,
                           <<TRUE, "PATCH">>, <<TRUE, "DELETE">>}
                     ELSE IF has_pk
                     THEN {<<FALSE, "GET">>, <<TRUE, "GET">>}
                     ELSE IF enable_write
                     THEN {<<FALSE, "GET">>, <<FALSE, "POST">>}
                     ELSE {<<FALSE, "GET">>}
                /\ Len(router) = Cardinality(RouteKinds(router))
                /\ \A i \in DOMAIN router :
                      router[i].path # RootPath =>
                          IsRecordPath(router[i].path, table)

\* C1 witness: a router was built for a table without a primary key with
\* writes enabled, and it holds two routes.
C1_Witness ==
    /\ phase = "built"
    /\ enable_write
    /\ \E table \in metadata :
          /\ PkNames(table) = {}
          /\ Len(table.columns) = 2
          /\ Len(routes[table.name]) = 2

\* Request r's handler answers in this step, to a request of this method.
Answers(r, method) ==
    /\ pc[r] = "open"
    /\ pc'[r] = "handled"
    /\ resp'[r].method = method

\* The rows a primary-key path addresses.
Found(rows, path_params) ==
    SelectSeq(rows, LAMBDA row : Matches(row, path_params))

\* A column a body may leave out by the documented interface: nullable, with
\* a default, or a key the database generates.
Omittable(column) ==
    \/ column.nullable
    \/ column.default # Null
    \/ column.server_default # Null
    \/ column.primary_key

\* row with the fields of values set, the others kept.
Updated(row, values) ==
    [n \in DOMAIN row |-> IF n \in DOMAIN values THEN values[n] ELSE row[n]]

\* row with every field taken from values, the omitted ones null.
Replaced(row, values) ==
    [n \in DOMAIN row |-> IF n \in DOMAIN values THEN values[n] ELSE Null]

\* C2: a PATCH on an existing record, when no database operation fails,
\* answers 200, commits, and changes exactly the fields present in the
\* body to the submitted values: every absent field and every other row
\* keeps its value.
C2_PatchSubmittedFields ==
    [][\A r \in Requests :
          (/\ Answers(r, "PATCH")
           /\ Len(Found(db, resp'[r].path_params)) = 1
           /\ resp'[r].error = "none")
          => /\ resp'[r].status = 200
             /\ resp'[r].committed
             /\ db' = [i \in DOMAIN db |->
                         IF Matches(db[i], resp'[r].path_params)
                         THEN Updated(db[i], resp'[r].body)
                         ELSE db[i]]]_vars

\* C3: a PUT on an existing record with a body that omits only omittable
\* columns, when no database operation fails, answers 200 with the updated
\* record, commits, and overwrites every field of the record from the
\* body: an omitted field ends up null, not at its prior value.
C3_PutFullReplace ==
    [][\A r \in Requests :
          (/\ Answers(r, "PUT")
           /\ Len(Found(db, resp'[r].path_params)) = 1
           /\ \A n \in ColNames(users) \ DOMAIN resp'[r].body :
                 ~ColumnOf(users, n).primary_key
                 /\ Omittable(ColumnOf(users, n))
           /\ resp'[r].error = "none")
          => /\ resp'[r].status = 200
             /\ resp'[r].committed
             /\ db' = [i \in DOMAIN db |->
                         IF Matches(db[i], resp'[r].path_params)
                         THEN Replaced(db[i], resp'[r].body)
                         ELSE db[i]]
             /\ resp'[r].out =
                   <<Replaced(Found(db, resp'[r].path_params)[1],
                              resp'[r].body)>>]_vars

\* C4: a POST on users(id PK, name NOT NULL, age NULLABLE), when no
\* database operation fails: a body that omits only omittable columns
\* (name given, age left out) answers 201 with the created record, whose
\* omitted nullable columns are null, and adds one row; a body that omits
\* name is rejected and adds none.
C4_PostOmittable ==
    [][\A r \in Requests :
          (Answers(r, "POST") /\ resp'[r].error = "none")
          => IF \A n \in ColNames(users) \ DOMAIN resp'[r].body :
                   Omittable(ColumnOf(users, n))
             THEN /\ resp'[r].status = 201
                  /\ Len(db') = Len(db) + 1
                  /\ SubSeq(db', 1, Len(db)) = db
                  /\ resp'[r].out = <<db'[Len(db')]>>
                  /\ \A n \in DOMAIN resp'[r].body :
                        db'[Len(db')][n] = resp'[r].body[n]
                  /\ "age" \notin DOMAIN resp'[r].body
                        => db'[Len(db')]["age"] = Null
             ELSE /\ resp'[r].status \in {400, 422}
                  /\ db' = db]_vars

\* The handler of the request is called: the route takes no body, or the
\* body passes the interface.
Called(response) ==
    \/ response.method \in {"LIST", "GET", "DELETE"}
    \/ validates(create_db_interface(users), response.body)

RecordMethods == {"GET", "PUT", "PATCH", "DELETE"}

ReadAnswers(kind, rows, path_params) ==
    {get_record(users, kind, rows, path_params, "none"),
     delete_record(users, kind, rows, path_params, "none")}

\* What PUT and PATCH answer on path_params over rows when no database
\* operation fails, for every body of bodies.
WriteAnswers(kind, rows, path_params, bodies) ==
    {Endpoint(users, body, rows,
              put_record(users, kind, rows, path_params, body, "none")) :
            body \in bodies}
    \cup {Endpoint(users, body, rows,
              patch_record(users, kind, rows, path_params, body, "none")) :
            body \in bodies}

\* A DELETE that finds its record and meets no database failure removes
\* exactly that row, commits, and answers 200 with no body.
DeleteRemoves(r) ==
    (/\ Answers(r, "DELETE")
     /\ Len(Found(db, resp'[r].path_params)) = 1
     /\ resp'[r].error = "none")
    => /\ resp'[r].status = 200
       /\ resp'[r].out = <<>>
       /\ resp'[r].committed
       /\ db' = SelectSeq(db, LAMBDA row :
                              ~Matches(row, resp'[r].path_params))

ValidBodies == {body \in Bodies(users) :
                   validates(create_db_interface(users), body)}

Before(a, b, col, dir) ==
    IF dir = "desc" THEN a[col] > b[col] ELSE a[col] < b[col]

\* out is the rows sorted on col and then cut to the page: out[i] stands at
\* position offset + i of the sorted rows, so the rows strictly before it
\* fit in front of that position and the rows strictly after it behind.
IsPageOfSorted(out, rows, col, dir, offset, limit) ==
    /\ Len(out) = IF Len(rows) <= offset THEN 0
                  ELSE Min(limit, Len(rows) - offset)
    /\ \A i \in DOMAIN out : out[i] \in Range(rows)
    /\ \A i, j \in DOMAIN out : out[i] = out[j] => i = j
    /\ IsSortedBy(out, col, dir)
    /\ \A i \in DOMAIN out :
          /\ Cardinality({k \in DOMAIN rows :
                Before(rows[k], out[i], col, dir)}) <= offset + i - 1
          /\ Cardinality({k \in DOMAIN rows :
                Before(out[i], rows[k], col, dir)})
                <= Len(rows) - (offset + i)

\* C7: a LIST answered 200 for a valid order_by column and a positive limit
\* returns the rows of the table sorted on order_by in the requested
\* direction and then cut by offset and limit: ordering comes before
\* pagination.
C7_OrderBeforePage ==
    [][\A r \in Requests :
          (/\ Answers(r, "LIST")
           /\ resp'[r].status = 200
           /\ resp'[r].params.order_by # <<>>
           /\ resp'[r].params.limit > 0)
          => (resp'[r].params.order_by[1] \in ColNames(users)
              => IsPageOfSorted(resp'[r].out, db,
                                resp'[r].params.order_by[1],
                                resp'[r].params.direction,
                                resp'[r].params.offset,
                                resp'[r].params.limit))]_vars

\* C7 witness: a LIST of two rows stored in descending name, ordered by
\* name ascending with limit 1, returned the row of the lower name.
C7_Witness ==
    \E r \in Requests :
        /\ pc[r] = "handled"
        /\ resp[r].method = "LIST"
        /\ resp[r].status = 200
        /\ resp[r].params = [limit |-> 1, offset |-> 0,
                             order_by |-> <<"name">>, direction |-> "asc"]
        /\ Len(db) = 2
        /\ db[1]["name"] > db[2]["name"]
        /\ resp[r].out = <<db[2]>>

\* The requests in flight: those holding a session.
InFlight == {r \in Requests : pc[r] # "idle"}

\* A request in flight holds one open session of the engine's kind; a
\* request that is over holds none that is open; the open sessions are as
\* many as the requests in flight.
SessionPerRequest ==
    /\ \A r \in InFlight :
          /\ session[r].state = "open"
          /\ session[r].kind = create_db_engine(db_driver)
    /\ \A r \in Requests \ InFlight : session[r].state # "open"
    /\ pool = Cardinality(InFlight)

\* C8: every request is served with its own session, opened for it when
\* it arrives, and that session is closed when the request is over, whether
\* the handler returned (success), raised 404, was not called because the
\* body failed validation, or ended with an unhandled exception, for a
\* synchronous and for an asynchronous engine alike.
C8_SessionClosed ==
    /\ []SessionPerRequest
    /\ [][\A r \in Requests :
             /\ (pc[r] = "idle" /\ pc'[r] # "idle")
                => /\ session'[r].state = "open"
                   /\ pool' = pool + 1
             /\ (pc[r] = "handled" /\ pc'[r] = "idle")
                => /\ session'[r].state = "closed"
                   /\ pool' = pool - 1]_vars
    /\ \A r \in Requests :
          (pc[r] = "handled") ~> (session[r].state = "closed")

\* C8 witness: with an asynchronous engine, one request ended with an
\* exception and its session is closed, while another request holds its
\* own open session.
C8_Witness ==
    /\ engine = "async"
    /\ \E r, q \in Requests :
          /\ pc[r] = "idle"
          /\ session[r].state = "closed"
          /\ session[r].exc = "Exception"
          /\ pc[q] = "handled"
          /\ session[q].state = "open"
          /\ resp[q].status = 422
    /\ pool = 1

\* C9: when the commit, the execute or the delete of a request fails with
\* a database error, the request is answered with a 5xx status, nothing of
\* it is committed, and its session is still closed when the request is
\* over.
C9_DatabaseFailure ==
    [][\A r \in Requests :
          /\ (pc[r] = "open" /\ pc'[r] = "handled"
              /\ resp'[r].error # "none")
             => /\ resp'[r].status >= 500
                /\ resp'[r].status <= 599
                /\ ~resp'[r].committed
                /\ db' = db
          /\ (pc[r] = "handled" /\ pc'[r] = "idle"
              /\ resp[r].error # "none")
             => /\ session'[r].state = "closed"
                /\ session'[r].exc = "DBAPIError"]_vars

\* C9 witness: a request whose database operation failed is over, its
\* session closed, while the commit of another request has failed and was
\* answered 500.
C9_Witness ==
    \E r, q \in Requests :
        /\ pc[r] = "idle"
        /\ session[r].state = "closed"
        /\ session[r].exc = "DBAPIError"
        /\ pc[q] = "handled"
        /\ resp[q].error = "commit"
        /\ resp[q].status = 500

\* The application is fully started: connected, the schema reflected, and
\* a router built for every reflected table.
Started ==
    /\ engine = create_db_engine(db_driver)
    /\ metadata = create_db_metadata(engine, DbTables, DbViews)
    /\ DOMAIN routes = {table.name : table \in metadata}
    /\ \A table \in metadata : Len(routes[table.name]) >= 1
    /\ error = "none"

\* C10: requests are served only once the database is connected, the
\* schema reflected and the routes built; when connecting or reflecting
\* fails the process aborts with a logged diagnostic, for good, and never
\* serves, with part of the routes or otherwise.
C10_StartupBeforeServing ==
    /\ [](/\ phase = "serving" => Started
          /\ InFlight # {} => (phase = "serving" /\ Started)
          /\ error # "none" => /\ phase = "aborted"
                               /\ logged
                               /\ InFlight = {}
                               /\ DOMAIN routes = {}
          /\ phase = "aborted" => error \in {"connect", "reflect"})
    /\ [][phase = "aborted" => phase' = "aborted"]_vars

\* C10 witness: reflecting the schema failed after the engine was built,
\* and the process has aborted with the failure logged.
C10_Witness ==
    /\ phase = "aborted"
    /\ error = "reflect"
    /\ logged
    /\ engine # "none"
    /\ routes = [n \in {} |-> <<>>]

\* The names of the primary key columns in the order the table declares
\* them.
DeclaredPk(table) ==
    [i \in DOMAIN primary_key_columns(table) |->
        primary_key_columns(table)[i].name]

\* names ascend in Python's string order.
IsAscending(names) ==
    \A i, j \in DOMAIN names : i < j => Rank(names[i]) < Rank(names[j])

\* C11 (as stated): the record path built by the route factory
\* (create_table_router) has one segment per primary-key column, in the
\* order the table declares its primary key columns.
C11_PathInDeclarationOrder ==
    phase = "built" =>
        \A table \in metadata :
            \A i \in DOMAIN routes[table.name] :
                routes[table.name][i].path # RootPath
                    => routes[table.name][i].path = DeclaredPk(table)

\* C11 (amended): the record path built by create_table_router has one
\* segment per primary-key column, each column once, in ascending order of
\* the column names whatever the order the table declares them in; the
\* factory of create_app (create_route_handlers) keeps the declaration
\* order.
C11_PathInNameOrder ==
    phase = "built" =>
        \A table \in metadata :
            /\ \A i \in DOMAIN routes[table.name] :
                  routes[table.name][i].path # RootPath
                      => /\ IsRecordPath(routes[table.name][i].path, table)
                         /\ IsAscending(routes[table.name][i].path)
            /\ \A i \in DOMAIN create_route_handlers(table).routes :
                  create_route_handlers(table).routes[i].path # RootPath
                      => create_route_handlers(table).routes[i].path
                            = DeclaredPk(table)

\* C11 witness: a router was built for a table that declares its primary
\* key as (name, id), and its record path is /{id}/{name}/.
C11_Witness ==
    /\ phase = "built"
    /\ \E table \in metadata :
          /\ DeclaredPk(table) = <<"name", "id">>
          /\ \E i \in DOMAIN routes[table.name] :
                routes[table.name][i].path = <<"id", "name">>

\* interfaces.create_optional_interface: one field per column, none of
\* them required.  No handler is built from it: create_patch_record_handler
\* validates against create_db_interface.
create_optional_interface(table) ==
    [n \in ColNames(table) |->
        [required |-> FALSE, default |-> ColumnOf(table, n).default]]

\* C12: a PATCH body that omits any subset of the table's columns, each
\* field it carries being of its column's type, passes validation: the
\* request is never answered 422.
C12_PatchOmissionValidates ==
    [][\A r \in Requests :
          (/\ Answers(r, "PATCH")
           /\ validates(create_optional_interface(users), resp'[r].body))
          => resp'[r].status # 422]_vars

(***************************************************************************)
(* dependencies.get_pagination_params / apply_pagination_params: the list  *)
(* form of pagination, called directly on a list of items.                 *)
(***************************************************************************)
MaxItems == 5       \* longest list of items paginated
MaxPage == 4        \* largest page number, either sign
MaxPerPage == 3     \* largest per_page, either sign

\* The lists paginated: slicing depends on positions only, so item i is i.
ItemLists == {[i \in 1..n |-> i] : n \in 0..MaxItems}

Max(a, b) == IF a >= b THEN a ELSE b

\* items[start:end] of a Python list: a negative index counts from the end,
\* and both indices are clamped to the list.
list_slice(items, start, end) ==
    LET clamp(i) == IF i < 0 THEN Max(Len(items) + i, 0)
                    ELSE Min(i, Len(items))
    IN  IF clamp(start) < clamp(end)
        THEN SubSeq(items, clamp(start) + 1, clamp(end))
        ELSE <<>>

\* (total_count + per_page - 1) // per_page, for per_page > 0
total_pages_of(total_count, per_page) ==
    (total_count + per_page - 1) \div per_page

\* page_start that counts positive pages from zero.
page_start_zero_based(page, per_page, total_pages) ==
    IF page > 0 THEN page * per_page
    ELSE (total_pages + page) * per_page

\* page_start that counts negative pages from one page too far back.
page_start_from_before_last(page, per_page, total_pages) ==
    IF page > 0 THEN (page - 1) * per_page
    ELSE (total_pages + page - 1) * per_page

\* The start index of a page other than zero.
page_start(page, per_page, total_pages) ==
    IF page > 0 THEN (page - 1) * per_page
    ELSE (total_pages + page) * per_page

\* The result of a direct call: the exception raised or "none", the value
\* returned and the response as the call left it.
Returned(raised, value, response) ==
    [raised |-> raised, value |-> value, response |-> response]

\* The headers and the slice of a page other than zero.
paginated(items, page, per_page, response) ==
    LET total_count == Len(items)
        total_pages == total_pages_of(total_count, per_page)
        start == page_start(page, per_page, total_pages)
        end   == start + per_page
        r1 == SetHeader(response, "x-page", <<str(page)>>)
        r2 == SetHeader(r1, "x-per-page", <<str(per_page)>>)
        r3 == SetHeader(r2, "x-total-pages", <<str(total_pages)>>)
        r4 == SetHeader(r3, "x-total-count", <<str(total_count)>>)
    IN  Returned("none", list_slice(items, start, end), r4)

\* apply_pagination_params (list form) that clamps per_page to 1 and takes
\* page 0 for page 1.
dependencies_apply_pagination_params_clamped(items, pagination, response) ==
    paginated(items,
              IF pagination.page = 0 THEN 1 ELSE pagination.page,
              Max(pagination.per_page, 1), response)

\* dependencies.apply_pagination_params(items, pagination, response)
dependencies_apply_pagination_params(items, pagination, response) ==
    LET page     == pagination.page
        per_page == pagination.per_page
    IN  IF per_page <= 0 THEN Returned("ValueError", <<>>, response)
        ELSE IF page = 0 THEN Returned("none", items, response)
        ELSE paginated(items, page, per_page, response)

\* get_pagination_params that lets every per_page through.
dependencies_get_pagination_params_unchecked(_page_, _per_page_) ==
    [status |-> 200, params |-> [page |-> _page_, per_page |-> _per_page_]]

\* dependencies.get_pagination_params, as FastAPI resolves it: _per_page_
\* is Query(10, gt=0), so a value that is not positive is answered 422 and
\* the function is not called.
dependencies_get_pagination_params(_page_, _per_page_) ==
    IF _per_page_ > 0
    THEN [status |-> 200, params |-> [page |-> _page_, per_page |-> _per_page_]]
    ELSE [status |-> 422, params |-> [page |-> _page_, per_page |-> _per_page_]]

\* A call of dependencies.apply_pagination_params on a fresh response.
ApplyPaginationParamsList ==
    /\ call = NoCall
    /\ \E items \in ItemLists, page \in -MaxPage..MaxPage,
          per_page \in -MaxPerPage..MaxPerPage :
        call' = [fn |-> "dependencies.apply_pagination_params",
                 items |-> items, page |-> page, per_page |-> per_page,
                 ret |-> dependencies_apply_pagination_params(items,
                            [page |-> page, per_page |-> per_page],
                            NewResponse)]
    /\ UNCHANGED <<startup_vars, request_vars>>

\* A request whose query string is resolved by
\* dependencies.get_pagination_params.
GetPaginationParamsList ==
    /\ call = NoCall
    /\ \E page \in -MaxPage..MaxPage, per_page \in -MaxPerPage..MaxPerPage :
        call' = [fn |-> "dependencies.get_pagination_params",
                 page |-> page, per_page |-> per_page,
                 ret |-> dependencies_get_pagination_params(page, per_page)]
    /\ UNCHANGED <<startup_vars, request_vars>>

(***************************************************************************)
(* params.apply_pagination_params / apply_ordering_params, called directly *)
(* on a query over the users table.                                        *)
(***************************************************************************)
\* The dictionaries of pagination parameters: each key present or not.
PaginationDicts ==
    {d \in UNION {[S -> 0..Max(MaxLimit, MaxOffset)] :
                     S \in SUBSET {"limit", "offset"}} :
        /\ "limit" \in DOMAIN d => d["limit"] <= MaxLimit
        /\ "offset" \in DOMAIN d => d["offset"] <= MaxOffset}

\* The queries the steps are applied to: a bare select, a filtered one, one
\* with an ORDER BY attached.
Queries ==
    {select} \cup {filter_by(select, path_params) :
                      path_params \in PathParams(users)}
             \cup {[select EXCEPT !.order_by = <<[col |-> "name", dir |-> dir]>>] :
                      dir \in {"asc", "desc"}}

\* The order_by values of a request: none, a column of the table, names
\* that are no column (one of them outside latin-1).
OrderingDicts ==
    [order_by : {<<>>} \cup {<<n>> : n \in OrderByNames \cup {Lambda}},
     direction : {"asc", "desc"}]

\* A call of params.apply_pagination_params on a fresh response.
ApplyPaginationParams ==
    /\ call = NoCall
    /\ \E query \in Queries, params \in PaginationDicts :
        LET applied == apply_pagination_params(query, params, NewResponse)
        IN  call' = [fn |-> "params.apply_pagination_params",
                     query |-> query, params |-> params,
                     ret |-> Returned(applied[2].raised, applied[1],
                                      applied[2])]
    /\ UNCHANGED <<startup_vars, request_vars>>

\* A call of params.apply_ordering_params on a fresh response.
ApplyOrderingParams ==
    /\ call = NoCall
    /\ \E query \in Queries, params \in OrderingDicts :
        LET applied == apply_ordering_params(users, query, params, NewResponse)
        IN  call' = [fn |-> "params.apply_ordering_params",
                     query |-> query, params |-> params,
                     ret |-> Returned(applied[2].raised, applied[1],
                                      applied[2])]
    /\ UNCHANGED <<startup_vars, request_vars>>

(***************************************************************************)
(* interfaces.get_col_type, called directly on a column.                   *)
(***************************************************************************)
\* col.type.python_type: a Python type, or NotImplementedError raised by a
\* type the driver cannot express.
PythonTypes == {"int", "str", "float"}

NotImplementedError == "NotImplementedError"

\* The columns typed: every combination of type, nullability, client-side
\* default and server-side default.
TypedColumns ==
    [python_type : PythonTypes \cup {NotImplementedError},
     nullable : BOOLEAN,
     default : {Null} \cup Vals,
     server_default : {Null} \cup Vals]

\* typing.Any
typing_Any == [base |-> "Any", optional |-> FALSE]

\* The bare type t, and t | None.
Bare(t) == [base |-> t, optional |-> FALSE]

Optional(t) == [base |-> t, optional |-> TRUE]

\* get_col_type that widens nullable columns only.
get_col_type_nullable_only(col) ==
    IF col.python_type = NotImplementedError THEN typing_Any
    ELSE IF col.nullable THEN Optional(col.python_type)
    ELSE Bare(col.python_type)

\* interfaces.get_col_type(col)
get_col_type(col) ==
    IF col.python_type = NotImplementedError THEN typing_Any
    ELSE IF col.nullable \/ col.default # Null \/ col.server_default # Null
    THEN Optional(col.python_type)
    ELSE Bare(col.python_type)

\* A call of interfaces.get_col_type.
GetColType ==
    /\ call = NoCall
    /\ \E col \in TypedColumns :
        call' = [fn |-> "interfaces.get_col_type", col |-> col,
                 ret |-> get_col_type(col)]
    /\ UNCHANGED <<startup_vars, request_vars>>

(***************************************************************************)
(* Properties of the list and query forms of pagination.                   *)
(***************************************************************************)
ListCall == call.fn = "dependencies.apply_pagination_params"

QueryCall == call.fn = "params.apply_pagination_params"

\* ceil(n / d) for d > 0: the least t with t * d >= n.
Ceil(n, d) == CHOOSE t \in 0..n : t * d >= n /\ \A u \in 0..n : u * d >= n => t <= u

\* Page q >= 1 of items, per_page to a page: the items at positions
\* (q-1)*per_page + 1 .. q*per_page that the list has.
PageOf(items, q, per_page) ==
    LET first == (q - 1) * per_page
        count == Max(0, Min(per_page, Len(items) - first))
    IN  [i \in 1..count |-> items[first + i]]

PaginationHeaders == {"x-page", "x-per-page", "x-total-pages", "x-total-count"}

\* C13: for every list and every page >= 1 and per_page >= 1, the list form
\* of apply_pagination_params returns items[(page-1)*per_page :
\* page*per_page] and sets x-total-count = len(items), x-total-pages =
\* ceil(len(items)/per_page), x-page = page and x-per-page = per_page.
C13_PositivePage ==
    (ListCall /\ call.page >= 1 /\ call.per_page >= 1)
    => /\ call.ret.raised = "none"
       /\ call.ret.value = PageOf(call.items, call.page, call.per_page)
       /\ call.ret.response.raised = "none"
       /\ call.ret.response.headers =
            [h \in PaginationHeaders |->
                CASE h = "x-page" -> ToString(call.page)
                  [] h = "x-per-page" -> ToString(call.per_page)
                  [] h = "x-total-pages" ->
                        ToString(Ceil(Len(call.items), call.per_page))
                  [] h = "x-total-count" -> ToString(Len(call.items))]

\* C13 witness: [1,2,3,4,5] with page 2, per_page 2 gave [3,4] with
\* total-count 5 and total-pages 3.
C13_Witness ==
    /\ ListCall
    /\ call.items = <<1, 2, 3, 4, 5>>
    /\ call.page = 2
    /\ call.per_page = 2
    /\ call.ret.value = <<3, 4>>
    /\ call.ret.response.headers["x-total-count"] = "5"
    /\ call.ret.response.headers["x-total-pages"] = "3"

\* C14: negative page numbers count from the last page backward: for every
\* list, every per_page >= 1 and every k with 1 <= k <= total_pages,
\* page = -k returns the items of page total_pages - k + 1, the same items
\* apply_pagination_params returns for that page.
C14_NegativePage ==
    (/\ ListCall
     /\ call.per_page >= 1
     /\ call.page <= -1
     /\ -call.page <= Ceil(Len(call.items), call.per_page))
    => LET q == Ceil(Len(call.items), call.per_page) + call.page + 1
       IN  /\ call.ret.raised = "none"
           /\ call.ret.value = PageOf(call.items, q, call.per_page)
           /\ call.ret.value =
                dependencies_apply_pagination_params(call.items,
                    [page |-> q, per_page |-> call.per_page],
                    NewResponse).value

\* C14 witness: [1,2,3,4,5] with page -1, per_page 2 gave the last page,
\* [5].
C14_Witness ==
    /\ ListCall
    /\ call.items = <<1, 2, 3, 4, 5>>
    /\ call.page = -1
    /\ call.per_page = 2
    /\ call.ret.value = <<5>>

\* C15: disabled pagination is the identity: the list form with page = 0
\* and any per_page >= 1 returns the full input list unchanged, and the
\* query form with limit = 0 or limit absent, whatever the offset, returns
\* the query it was given with no LIMIT and no OFFSET attached.
C15_DisabledIsIdentity ==
    /\ (ListCall /\ call.page = 0 /\ call.per_page >= 1)
       => /\ call.ret.raised = "none"
          /\ call.ret.value = call.items
    /\ (QueryCall /\ ("limit" \in DOMAIN call.params => call.params["limit"] = 0))
       => /\ call.ret.raised = "none"
          /\ call.ret.value = call.query
          /\ call.ret.value.limit = <<>>
          /\ call.ret.value.offset = <<>>

\* C15 witness: the query form was given no limit and offset 1, and
\* returned the query as it was.
C15_Witness ==
    /\ QueryCall
    /\ DOMAIN call.params = {"offset"}
    /\ call.params["offset"] = 1
    /\ call.ret.value = call.query
    /\ call.ret.value.limit = <<>>

\* The headers the query form writes for its parameters.
QueryHeaders(params, applied) ==
    [h \in {"X-Pagination-Limit", "X-Pagination-Offset",
             "X-Pagination-Applied"} |->
        CASE h = "X-Pagination-Limit" ->
                IF "limit" \in DOMAIN params THEN ToString(params["limit"])
                ELSE "None"
          [] h = "X-Pagination-Offset" ->
                IF "offset" \in DOMAIN params THEN ToString(params["offset"])
                ELSE "None"
          [] h = "X-Pagination-Applied" -> IF applied THEN "true" ELSE "false"]

\* Whether the query form paginates for these parameters.
Paginates(params) == "limit" \in DOMAIN params /\ params["limit"] > 0

\* C16 (as stated): the pagination apply step writes the pagination
\* response headers on every outcome, disabled pagination (page = 0, or
\* limit = 0 or absent) included: the query form its limit, offset and
\* applied headers, the list form its page and total headers.
C16_HeadersOnEveryOutcome ==
    /\ QueryCall
       => call.ret.response.headers
            = QueryHeaders(call.params, Paginates(call.params))
    /\ (ListCall /\ call.ret.raised = "none")
       => DOMAIN call.ret.response.headers = PaginationHeaders

\* C16 (amended): the query form writes its limit, offset and applied
\* headers on every outcome, applied being true exactly when a positive
\* limit was given; the list form writes its four headers exactly when it
\* paginates (page # 0 and per_page >= 1), and writes no header at all
\* when pagination is disabled (page = 0) or per_page is rejected.
C16_HeadersUnlessPageZero ==
    /\ QueryCall
       => /\ call.ret.raised = "none"
          /\ call.ret.response.headers
                = QueryHeaders(call.params, Paginates(call.params))
    /\ (ListCall /\ call.page # 0 /\ call.per_page >= 1)
       => /\ DOMAIN call.ret.response.headers = PaginationHeaders
          /\ call.ret.response.headers["x-page"] = ToString(call.page)
          /\ call.ret.response.headers["x-total-count"]
                = ToString(Len(call.items))
    /\ (ListCall /\ (call.page = 0 \/ call.per_page <= 0))
       => call.ret.response.headers = NoHeaders

\* C16 witness: the list form was called with page 0 on [1,2,3,4,5],
\* returned the whole list and wrote no header.
C16_Witness ==
    /\ ListCall
    /\ call.items = <<1, 2, 3, 4, 5>>
    /\ call.page = 0
    /\ call.per_page = 2
    /\ call.ret.raised = "none"
    /\ call.ret.value = call.items
    /\ call.ret.response.headers = NoHeaders

\* C17: per_page <= 0 is rejected, never clamped: for every list and every
\* page, zero included, the list form with per_page <= 0 raises
\* ValueError, returns no items and writes no response header; parsing the
\* request rejects per_page <= 0 with 422.
C17_PerPageRejected ==
    /\ (ListCall /\ call.per_page <= 0)
       => /\ call.ret.raised = "ValueError"
          /\ call.ret.value = <<>>
          /\ call.ret.response = NewResponse
    /\ (call.fn = "dependencies.get_pagination_params" /\ call.per_page <= 0)
       => call.ret.status = 422

\* C17 witness: the list form was called with page 0 and per_page 0 on a
\* list of five items, and raised.
C17_Witness ==
    /\ ListCall
    /\ Len(call.items) = 5
    /\ call.page = 0
    /\ call.per_page = 0
    /\ call.ret.raised = "ValueError"

(***************************************************************************)
(* Properties of the ordering step.                                        *)
(***************************************************************************)
\* C18: a LIST request that names no order_by, when no database operation
\* fails, succeeds: it is answered 200 with X-Order-Applied = false and
\* the rows in the database's natural order, cut by offset and limit, no
\* ORDER BY having been attached.
C18_NoOrderBySucceeds ==
    [][\A r \in Requests :
          (/\ Answers(r, "LIST")
           /\ resp'[r].params.order_by = <<>>
           /\ resp'[r].error = "none")
          => /\ resp'[r].status = 200
             /\ resp'[r].raised = "none"
             /\ "X-Order-Applied" \in DOMAIN resp'[r].headers
             /\ resp'[r].headers["X-Order-Applied"] = "false"
             /\ resp'[r].out \in
                  ExecuteSelect(
                    apply_pagination_params(select, resp'[r].params,
                                            NewResponse)[1], db)]_vars

\* C19: when order_by names a column that does not exist on the table, the
\* ordering step does not raise, returns the query as it was given and
\* sets X-Order-Applied to false.
C19_UnknownColumnIgnored ==
    (/\ call.fn = "params.apply_ordering_params"
     /\ call.params.order_by # <<>>
     /\ ~(call.params.order_by[1] \in ColNames(users)))
    => /\ call.ret.raised = "none"
       /\ call.ret.value = call.query
       /\ "X-Order-Applied" \in DOMAIN call.ret.response.headers
       /\ call.ret.response.headers["X-Order-Applied"] = "false"

(***************************************************************************)
(* Properties of the type mapping.                                         *)
(***************************************************************************)
\* The column is nullable or has a client-side or server-side default.
Widens(col) ==
    col.nullable \/ col.default # Null \/ col.server_default # Null

\* C20 (as stated): for every column, the type get_col_type gives includes
\* the nullable variant exactly when the column is nullable or has a
\* client-side or server-side default, and is the bare base type for a
\* column with none of these.
C20_TypeWidening ==
    call.fn = "interfaces.get_col_type"
    => /\ call.ret.optional <=> Widens(call.col)
       /\ ~Widens(call.col)
            => call.ret \in {Bare(call.col.python_type), typing_Any}

\* C20 (amended): for every column whose type the driver can express as a
\* Python type, get_col_type gives that type unioned with None exactly
\* when the column is nullable or has a client-side or server-side
\* default, and the bare type otherwise; for a column whose type is not
\* representable it gives Any, never widened, whatever the nullability
\* and defaults of the column.
C20_TypeWideningIfRepresentable ==
    call.fn = "interfaces.get_col_type"
    => /\ call.col.python_type \in PythonTypes
            => call.ret = [base |-> call.col.python_type,
                           optional |-> Widens(call.col)]
       /\ call.col.python_type = NotImplementedError
            => call.ret = [base |-> "Any", optional |-> FALSE]

\* C20 witness: a float column that is not nullable and has a client-side
\* default only was typed float | None.
C20_Witness ==
    /\ call.fn = "interfaces.get_col_type"
    /\ call.col.python_type = "float"
    /\ ~call.col.nullable
    /\ call.col.default # Null
    /\ call.col.server_default = Null
    /\ call.ret = [base |-> "float", optional |-> TRUE]

(***************************************************************************)
(* interfaces.create_pk_interface / create_optional_interface /            *)
(* create_interface, called directly on a table.                           *)
(***************************************************************************)
\* iter_columns(table, pk_only) that yields every column.
iter_columns_all(table, pk_only) == table.columns

\* interfaces.iter_columns(table, pk_only): the columns in the order of
\* table.columns.values(), the primary key ones only if pk_only.
iter_columns(table, pk_only) ==
    SelectSeq(table.columns, LAMBDA column : column.primary_key \/ ~pk_only)

\* The default of a field definition: <<>> for ... (the field is required),
\* <<v>> for a default value v, None included.
Ellipsis == <<>>

\* interfaces.get_col_default(col): the server default cast to the Python
\* type of the column when there is one and the cast succeeds, else the
\* client-side default, which is None for a column without one.
get_col_default(col) ==
    IF col.server_default # Null /\ col.python_type # NotImplementedError
    THEN <<col.server_default>>
    ELSE <<col.default>>

\* One entry of the fields dictionary given to create_model.
Field(name, type, default) ==
    [name |-> name, type |-> type, default |-> default]

\* create_model(name, **fields): the fields keep the order of the dictionary.
create_model(name, fields) == [name |-> name, fields |-> fields]

\* interfaces.create_pk_interface(table)
create_pk_interface(table) ==
    LET cols == iter_columns(table, TRUE)
    IN  create_model(table.name \o "-PK",
            [i \in DOMAIN cols |->
                Field(cols[i].name, get_col_type(cols[i]), Ellipsis)])

\* interfaces.create_interface(table)
create_interface(table) ==
    LET cols == iter_columns(table, FALSE)
    IN  create_model(table.name,
            [i \in DOMAIN cols |->
                Field(cols[i].name, get_col_type(cols[i]),
                      get_col_default(cols[i]))])

\* The names a table of the database may have: quoted identifiers may hold
\* any character, a hyphen included.
TableNames == {"t", "users", "users-PK", "users-Optional"}

\* Every table over ColumnNames under every table name.
NamedTables ==
    {[table EXCEPT !.name = n] : table \in AllTables, n \in TableNames}

\* A call of interfaces.create_interface.
CreateInterface ==
    /\ call = NoCall
    /\ \E table \in NamedTables :
        call' = [fn |-> "interfaces.create_interface", table |-> table,
                 ret |-> create_interface(table)]
    /\ UNCHANGED <<startup_vars, request_vars>>

\* A call of interfaces.create_pk_interface.
CreatePkInterface ==
    /\ call = NoCall
    /\ \E table \in NamedTables :
        call' = [fn |-> "interfaces.create_pk_interface", table |-> table,
                 ret |-> create_pk_interface(table)]
    /\ UNCHANGED <<startup_vars, request_vars>>

FieldNames(interface) ==
    [i \in DOMAIN interface.fields |-> interface.fields[i].name]

\* C21: for every table, the interface built over all columns has exactly
\* one field per column, in column declaration order, and no other field;
\* the pk-only interface has exactly one field per primary-key column (its
\* field names are the primary-key column names, each once) and no other
\* field.
C21_OneFieldPerColumn ==
    /\ call.fn = "interfaces.create_interface"
       => FieldNames(call.ret)
            = [i \in DOMAIN call.table.columns |-> call.table.columns[i].name]
    /\ call.fn = "interfaces.create_pk_interface"
       => /\ Range(FieldNames(call.ret)) = PkNames(call.table)
          /\ Len(call.ret.fields) = Cardinality(PkNames(call.table))
          /\ FieldNames(call.ret) = DeclaredPk(call.table)

\* C21 witness: the pk-only interface of a table that declares (name, id,
\* age) with the key (name, id) has the two fields name and id.
C21_Witness ==
    /\ call.fn = "interfaces.create_pk_interface"
    /\ Len(call.table.columns) = 3
    /\ FieldNames(call.ret) = <<"name", "id">>

\* A call of interfaces.get_col_default, whose result create_interface
\* gives to create_model as the default of the column's field.
GetColDefault ==
    /\ call = NoCall
    /\ \E col \in TypedColumns :
        call' = [fn |-> "interfaces.get_col_default", col |-> col,
                 ret |-> get_col_default(col)]
    /\ UNCHANGED <<startup_vars, request_vars>>

\* C22: in default mode the default of a field follows its column: a
\* column that is not nullable and has no default gives a required field
\* (no default), a nullable column with no default gives a field that
\* defaults to null, and a column with a default gives a field that has a
\* default.
C22_DefaultPolicy ==
    call.fn = "interfaces.get_col_default"
    => LET has_default == \/ call.col.default # Null
                          \/ call.col.server_default # Null
       IN  /\ (~has_default /\ ~call.col.nullable) => call.ret = Ellipsis
           /\ (~has_default /\ call.col.nullable) => call.ret = <<Null>>
           /\ has_default => call.ret # Ellipsis

(***************************************************************************)
(* Properties of the startup and of the requests served.                   *)
(***************************************************************************)
\* C23: a reflected table with zero columns is a configuration error
\* raised while interfaces and routes are built: the application never
\* gets its routers built, nor serves, with such a table in its catalog.
C23_ZeroColumnsFailAtStartup ==
    phase \in {"built", "serving"}
    => \A table \in metadata :
          /\ Len(table.columns) > 0
          /\ DOMAIN create_db_interface(table) # {}

\* A call of interfaces.create_optional_interface.
CreateOptionalInterface ==
    /\ call = NoCall
    /\ \E table \in NamedTables :
        call' = [fn |-> "interfaces.create_optional_interface",
                 table |-> table,
                 ret |-> create_model(table.name \o "-Optional",
                                      create_optional_interface(table))]
    /\ UNCHANGED <<startup_vars, request_vars>>

Builders == {"interfaces.create_interface",
             "interfaces.create_optional_interface",
             "interfaces.create_pk_interface"}

\* The name builder gives the interface of table.
InterfaceName(builder, table) ==
    CASE builder = "interfaces.create_interface" ->
            create_interface(table).name
      [] builder = "interfaces.create_optional_interface" ->
            create_model(table.name \o "-Optional",
                         create_optional_interface(table)).name
      [] builder = "interfaces.create_pk_interface" ->
            create_pk_interface(table).name

\* C24: the name of a generated interface is a function of the table name
\* and the builder (default, optional, pk-only) and never collides: the
\* same builder on a table of the same name gives the same name, and any
\* other pair of table name and builder gives another name.
C24_NamesNeverCollide ==
    call.fn \in Builders
    => \A builder \in Builders, table \in NamedTables :
          IF builder = call.fn /\ table.name = call.table.name
          THEN InterfaceName(builder, table) = call.ret.name
          ELSE InterfaceName(builder, table) # call.ret.name

(***************************************************************************)
(* The handlers of the users table run directly, on a synchronous and on   *)
(* an asynchronous session, over any contents of the table.                *)
(***************************************************************************)
Methods == {"LIST", "GET", "POST", "PUT", "PATCH", "DELETE"}

\* What a request may carry and the database operation that may fail
\* while it is handled.
RequestsOf(method) ==
    CASE method = "LIST" ->
            [path_params : {NoPathParams}, body : {NoBody},
             params : ListParams, fault : {"none", "execute"}]
      [] method = "GET" ->
            [path_params : PathParams(users), body : {NoBody},
             params : {NoParams}, fault : {"none", "execute"}]
      [] method = "POST" ->
            [path_params : {NoPathParams}, body : Bodies(users),
             params : {NoParams}, fault : {"none", "execute", "commit"}]
      [] method \in {"PUT", "PATCH"} ->
            [path_params : PathParams(users), body : Bodies(users),
             params : {NoParams}, fault : {"none", "execute", "commit"}]
      [] method = "DELETE" ->
            [path_params : PathParams(users), body : {NoBody},
             params : {NoParams},
             fault : {"none", "execute", "delete", "commit"}]

\* The outcomes of the endpoint of method on a session of kind sess over
\* the committed rows.
Handle(method, sess, rows, req) ==
    CASE method = "LIST" ->
            list_records(users, sess, rows, req.params, req.fault)
      [] method = "GET" ->
            {get_record(users, sess, rows, req.path_params, req.fault)}
      [] method = "POST" ->
            {Endpoint(users, req.body, rows,
                post_record(users, sess, rows, req.body, req.fault))}
      [] method = "PUT" ->
            {Endpoint(users, req.body, rows,
                put_record(users, sess, rows, req.path_params, req.body,
                           req.fault))}
      [] method = "PATCH" ->
            {Endpoint(users, req.body, rows,
                patch_record(users, sess, rows, req.path_params, req.body,
                             req.fault))}
      [] method = "DELETE" ->
            {delete_record(users, sess, rows, req.path_params, req.fault)}

\* A handler is run on a session of either kind.
RunHandler ==
    /\ call = NoCall
    /\ \E method \in Methods, sess \in {"sync", "async"},
          rows \in DbStates(users) :
        \E req \in RequestsOf(method) :
          \E o \in Handle(method, sess, rows, req) :
            call' = [fn |-> "handler", method |-> method, sess |-> sess,
                     rows |-> rows, req |-> req, ret |-> o]
    /\ UNCHANGED <<startup_vars, request_vars>>

\* The other execution model.
OtherKind(sess) == IF sess = "async" THEN "sync" ELSE "async"

Holders == {r \in Requests : session[r].state = "open"}

\* C26: under any interleaving of concurrent requests every request works
\* on a session of its own (no session object is held by two requests at
\* once), and no step taken once the catalog is reflected, a request
\* handler least of all, modifies the reflected catalog: it stays the
\* result of the one reflection of the startup.
C26_OwnSessionSharedCatalog ==
    [][/\ \A r, q \in Requests :
             (/\ r # q
              /\ session'[r].state = "open"
              /\ session'[q].state = "open")
             => session'[r].id # session'[q].id
       /\ \A r \in Requests :
             (session[r].state = "open" /\ session'[r].state = "open")
             => session'[r].id = session[r].id
       /\ phase \in {"reflected", "built", "serving"}
             => /\ metadata' = metadata
                /\ metadata = create_db_metadata(engine, DbTables, DbViews)
       /\ phase = "serving" => routes' = routes /\ engine' = engine]_vars

\* C26 witness: two requests are in flight at once, each with its own open
\* session, one of them already answered with a change to the table, and
\* the catalog is the reflected one.
C26_Witness ==
    /\ phase = "serving"
    /\ Holders = Requests
    /\ \E r, q \in Requests :
          /\ session[r].id = 1
          /\ session[q].id = 2
          /\ pc[q] = "handled"
          /\ resp[q].committed
    /\ metadata = DbTables

\* C27: when the routers are built with writeable = False every route
\* made uses the GET method and no sequence of requests, in any order and
\* with any parameters, changes the contents of the table; the LIST and
\* GET handlers, whatever the router, only select: they neither delete nor
\* commit, and leave the table as it was.
C27_ReadOnlyRouter ==
    [][/\ ~enable_write
          => /\ db' = db
             /\ \A n \in DOMAIN routes' :
                   \A i \in DOMAIN routes'[n] : routes'[n][i].method = "GET"
             /\ \A r \in Requests :
                   (pc[r] = "open" /\ pc'[r] = "handled")
                   => resp'[r].method \in {"LIST", "GET"}
       /\ \A r \in Requests :
             (Answers(r, "LIST") \/ Answers(r, "GET"))
             => /\ db' = db
                /\ ~resp'[r].committed
                /\ ~resp'[r].deleted]_vars

\* C27 witness: a read-only application holding a row has answered a GET
\* of that row with 200.
C27_Witness ==
    /\ ~enable_write
    /\ phase = "serving"
    /\ Len(db) > 0
    /\ \E r \in Requests :
          /\ pc[r] = "handled"
          /\ resp[r].method = "GET"
          /\ resp[r].status = 200
          /\ resp[r].out = <<db[1]>>

\* C28: PUT and PATCH never change which primary key identifies the
\* record they target: after a PUT or PATCH answered 200 and committed,
\* the record is still found at the primary-key path of the request,
\* whatever primary-key values the body carries, and every other record
\* is as it was.
C28_PrimaryKeyKept ==
    [][\A r \in Requests :
          (/\ Answers(r, "PUT") \/ Answers(r, "PATCH")
           /\ resp'[r].status = 200
           /\ resp'[r].committed)
          => /\ Len(Found(db', resp'[r].path_params)) = 1
             /\ Len(db') = Len(db)
             /\ \A i \in DOMAIN db :
                   ~Matches(db[i], resp'[r].path_params) => db'[i] = db[i]]_vars

\* C29: for every list and every per_page >= 1, a page number that
\* designates no existing page (page > total_pages or page <
\* -total_pages) makes the list form of apply_pagination_params return an
\* empty list.
C29_NoSuchPageIsEmpty ==
    (/\ ListCall
     /\ call.per_page >= 1
     /\ \/ call.page > Ceil(Len(call.items), call.per_page)
        \/ call.page < -Ceil(Len(call.items), call.per_page))
    => /\ call.ret.raised = "none"
       /\ call.ret.value = <<>>

(***************************************************************************)
(* models.create_db_metadata called directly                               *)
(***************************************************************************)
\* A call of models.create_db_metadata on an engine of either kind bound to
\* a database holding some tables and some views.
CallCreateDbMetadata ==
    /\ call = NoCall
    /\ \E driver \in Drivers, tables \in SUBSET DbTables,
          views_of_db \in SUBSET {users_view} :
        call' = [fn |-> "models.create_db_metadata",
                 engine |-> create_db_engine(driver),
                 tables |-> tables, views_of_db |-> views_of_db,
                 ret |-> create_db_metadata(create_db_engine(driver), tables,
                                            views_of_db)]
    /\ UNCHANGED <<startup_vars, request_vars>>

\* C30: for the same database contents (tables and views),
\* create_db_metadata returns the same set of reflected tables whether it
\* is given a synchronous or an asynchronous engine.
C30_SameCatalogOnBothEngines ==
    call.fn = "models.create_db_metadata"
    => \A driver \in Drivers :
          create_db_metadata(create_db_engine(driver), call.tables,
                             call.views_of_db) = call.ret

(***************************************************************************)
(* The library functions called directly, one call per behaviour, on an    *)
(* application that serves the users table.                                *)
(***************************************************************************)
InitCalls ==
    /\ phase = "serving"
    /\ db_driver \in Drivers
    /\ enable_write = TRUE
    /\ engine = create_db_engine(db_driver)
    /\ metadata = DbTables
    /\ routes = [n \in {users.name} |-> create_table_router(users, TRUE)]
    /\ logged = FALSE
    /\ error = "none"
    /\ db = <<>>
    /\ pc = [r \in Requests |-> "idle"]
    /\ session = [r \in Requests |-> NoSession]
    /\ pool = 0
    /\ resp = [r \in Requests |-> NoResp]
    /\ call = NoCall

NextCalls ==
    \/ GetPaginationParamsList
    \/ ApplyPaginationParamsList
    \/ ApplyPaginationParams
    \/ ApplyOrderingParams
    \/ GetColType
    \/ CreateInterface
    \/ CreatePkInterface
    \/ GetColDefault
    \/ CreateOptionalInterface
    \/ CallCreateDbMetadata

SpecCalls == InitCalls /\ [][NextCalls]_vars

\* The handlers run directly, one run per behaviour.
NextHandlers == RunHandler

SpecHandlers == InitCalls /\ [][NextHandlers]_vars

====
